---- MODULE Spec2Model ----
(***************************************************************************)
(* docShadow: the structure extractor (generator.py,                       *)
(* PythonDocumentationExtractor), the project indexer                      *)
(* (_build_project_structure) and the snapshot orchestrator                *)
(* (generate_documentation) with the helpers of utils.py it calls.         *)
(*                                                                         *)
(* Python strings are sequences of tokens (characters or short pieces), so *)
(* that splitting, prefixing and suffixing are computed; None is PyNone.   *)
(***************************************************************************)
EXTENDS Integers, Sequences, FiniteSets, TLC

VARIABLES
    (* the environment generate_documentation runs in *)
    repo,            \* the Git repository of ".", or NoRepo
    worktree,        \* the working tree: the files os.walk lists, in listing order
    docignore,       \* the state of the .docignore file
    disk,            \* what is stored under .docshadow
    (* one invocation of generate_documentation *)
    pc,              \* the position of the invocation
    commit_hash,     \* its argument
    commit_info,     \* get_commit_info's result
    python_files,    \* get_python_files' result
    documented_files,
    file_index,      \* how many of python_files the loop of line 310 has passed
    result,          \* the returned boolean, as "True" / "False" / "none"
    raisedAt,        \* the statement whose exception reached the handler of line 358
    disk0,           \* the disk as the invocation found it
    written,         \* the artifacts the invocation has opened for writing so far
    runs,            \* invocations started so far
    (* one application of a function of the extractor or the indexer *)
    fn, inp, out

vars == << repo, worktree, docignore, disk, pc, commit_hash, commit_info, python_files,
           documented_files, file_index, result, raisedAt, disk0, written, runs, fn, inp, out >>

orchVars == << repo, worktree, docignore, disk, pc, commit_hash, commit_info, python_files,
               documented_files, file_index, result, raisedAt, disk0, written, runs >>

pureVars == << fn, inp, out >>

(***************************************************************************)
(* Bounds of the model.                                                    *)
(***************************************************************************)
MaxRuns == 2
MaxArgs == 3
MaxDecorators == 2
MaxBody == 2
MaxTargets == 2
MaxPaths == 3
MaxSubdirs == 2

(***************************************************************************)
(* Python values.                                                          *)
(***************************************************************************)
PyNone == << "<None>" >>

NoNode == [node |-> "None"]

Name(id) == [node |-> "Name", id |-> id]

Attribute(value, attr) == [node |-> "Attribute", value |-> value, attr |-> attr]

\* ast.Constant carries a Python value: its type and its text.
Constant(type, text) == [node |-> "Constant", type |-> type, text |-> text]

\* str(value): a string is itself, any other constant its literal text.
PyStr(c) == c.text

\* repr(value): a string is quoted, any other constant its literal text.
PyRepr(c) == IF c.type = "str" THEN << "'" >> \o c.text \o << "'" >> ELSE c.text

\* ast.dump(node): an opaque structural dump that starts with the node's class.
AstDump(n) == << "dump", n.node, "(...)" >>

\* str.isupper(): at least one cased character and no lower-case one.
UpperChars == {"A", "I", "M", "N", "X"}

LowerChars == {"a", "i", "m", "n", "x"}

IsUpper(s) ==
    /\ \E i \in 1..Len(s) : s[i] \in UpperChars
    /\ \A i \in 1..Len(s) : s[i] \notin LowerChars

StartsWith(s, tok) == Len(s) > 0 /\ s[1] = tok

RECURSIVE Flatten(_)
Flatten(ss) == IF ss = << >> THEN << >> ELSE Head(ss) \o Flatten(Tail(ss))

(***************************************************************************)
(* PythonDocumentationExtractor: the name and value helpers.               *)
(***************************************************************************)
RECURSIVE _get_name(_)
_get_name(n) ==
    IF n.node = "Name" THEN n.id
    ELSE IF n.node = "Attribute" THEN _get_name(n.value) \o << "." >> \o n.attr
    ELSE IF n.node = "Constant" THEN PyStr(n)
    ELSE AstDump(n)

_get_annotation(annotation) ==
    IF annotation = NoNode THEN PyNone ELSE _get_name(annotation)

_get_return_annotation(n) ==
    IF n.returns # NoNode THEN _get_name(n.returns) ELSE PyNone

_get_value_repr(n) ==
    IF n.node = "Constant" THEN PyRepr(n)
    ELSE IF n.node = "Name" THEN n.id
    ELSE IF n.node = "List" THEN << "[...]" >>
    ELSE IF n.node = "Dict" THEN << "{...}" >>
    ELSE AstDump(n)

_get_default_value(n) == _get_value_repr(n)

(***************************************************************************)
(* Syntax trees (Python's ast).  A statement is a record whose node field  *)
(* names its class; the fields are those the extractor reads.              *)
(***************************************************************************)
\* ast.arg
Arg(name, annotation) == [arg |-> name, annotation |-> annotation]

\* ast.arguments: Python pairs defaults with the last of posonlyargs + args.
Arguments(posonlyargs, args, vararg, kwarg, defaults) ==
    [posonlyargs |-> posonlyargs, args |-> args, vararg |-> vararg,
     kwarg |-> kwarg, defaults |-> defaults]

NoArg == [arg |-> PyNone, annotation |-> NoNode]

NoArguments == Arguments(<< >>, << >>, NoArg, NoArg, << >>)

FunctionDef(name, lineno, args, decorator_list, returns, body) ==
    [node |-> "FunctionDef", name |-> name, lineno |-> lineno, args |-> args,
     decorator_list |-> decorator_list, returns |-> returns, body |-> body]

AsyncFunctionDef(name, lineno, args, decorator_list, returns, body) ==
    [node |-> "AsyncFunctionDef", name |-> name, lineno |-> lineno, args |-> args,
     decorator_list |-> decorator_list, returns |-> returns, body |-> body]

ClassDef(name, lineno, bases, decorator_list, body) ==
    [node |-> "ClassDef", name |-> name, lineno |-> lineno, bases |-> bases,
     decorator_list |-> decorator_list, body |-> body]

Assign(targets, value, lineno) ==
    [node |-> "Assign", targets |-> targets, value |-> value, lineno |-> lineno]

Tuple(elts) == [node |-> "Tuple", elts |-> elts]

Alias(name, asname) == [name |-> name, asname |-> asname]

Import(names) == [node |-> "Import", names |-> names]

ImportFrom(module, names) == [node |-> "ImportFrom", module |-> module, names |-> names]

If(body) == [node |-> "If", body |-> body]

Expr(value) == [node |-> "Expr", value |-> value]

Pass == [node |-> "Pass"]

Module(body) == [node |-> "Module", body |-> body]

\* isinstance(node, ast.FunctionDef): ast.AsyncFunctionDef is no subclass of it.
IsFunctionDef(n) == n.node = "FunctionDef"

HasBody(n) == n.node \in {"Module", "FunctionDef", "AsyncFunctionDef", "ClassDef", "If"}

\* ast.iter_child_nodes, restricted to statements (the nodes the walks select).
ChildStatements(n) == IF HasBody(n) THEN n.body ELSE << >>

\* ast.walk: breadth first, from a queue.
RECURSIVE AstWalk(_)
AstWalk(todo) ==
    IF todo = << >> THEN << >>
    ELSE << Head(todo) >> \o AstWalk(Tail(todo) \o ChildStatements(Head(todo)))

\* ast.get_docstring: the string constant that is the body's first statement.
get_docstring(n) ==
    IF /\ Len(n.body) > 0
       /\ n.body[1].node = "Expr"
       /\ n.body[1].value.node = "Constant"
       /\ n.body[1].value.type = "str"
    THEN n.body[1].value.text
    ELSE PyNone

(***************************************************************************)
(* PythonDocumentationExtractor: arguments, functions, classes, constants. *)
(***************************************************************************)
\* has_default paired from the left: the first defaults-many parameters
HasDefaultFromLeft(i, args) == i < Len(args.defaults)

\* i counts from 0, as enumerate does.
HasDefault(i, args) == i >= Len(args.args) - Len(args.defaults)

DefaultIdx(i, args) == i - (Len(args.args) - Len(args.defaults))

RegularArgument(i, args) ==
    LET arg == args.args[i + 1]
        has_default == HasDefault(i, args)
        default_idx == DefaultIdx(i, args)
    IN  [name |-> arg.arg,
         type |-> _get_annotation(arg.annotation),
         has_default |-> has_default,
         default |-> IF has_default /\ default_idx >= 0
                     THEN _get_default_value(args.defaults[default_idx + 1])
                     ELSE PyNone]

VarargEntry(args) ==
    IF args.vararg # NoArg
    THEN << [name |-> << "*" >> \o args.vararg.arg,
             type |-> _get_annotation(args.vararg.annotation),
             is_vararg |-> TRUE] >>
    ELSE << >>

KwargEntry(args) ==
    IF args.kwarg # NoArg
    THEN << [name |-> << "**" >> \o args.kwarg.arg,
             type |-> _get_annotation(args.kwarg.annotation),
             is_kwarg |-> TRUE] >>
    ELSE << >>

_extract_arguments(args) ==
    [i \in 1..Len(args.args) |-> RegularArgument(i - 1, args)]
        \o VarargEntry(args) \o KwargEntry(args)

DecoratorNames(n) == [i \in 1..Len(n.decorator_list) |-> _get_name(n.decorator_list[i])]

AnyDecoratorNamed(n, name) ==
    \E i \in 1..Len(n.decorator_list) : _get_name(n.decorator_list[i]) = name

_extract_function_info(n, is_method) ==
    LET func_info ==
            [name |-> n.name,
             docstring |-> get_docstring(n),
             line_number |-> n.lineno,
             arguments |-> _extract_arguments(n.args),
             decorators |-> DecoratorNames(n),
             is_async |-> n.node = "AsyncFunctionDef",
             is_method |-> is_method,
             returns |-> _get_return_annotation(n)]
    IN  IF is_method
        THEN [name |-> func_info.name,
              docstring |-> func_info.docstring,
              line_number |-> func_info.line_number,
              arguments |-> func_info.arguments,
              decorators |-> func_info.decorators,
              is_async |-> func_info.is_async,
              is_method |-> func_info.is_method,
              returns |-> func_info.returns,
              is_classmethod |-> AnyDecoratorNamed(n, << "classmethod" >>),
              is_staticmethod |-> AnyDecoratorNamed(n, << "staticmethod" >>),
              is_private |-> StartsWith(n.name, "_")]
        ELSE func_info

_extract_functions(tree) ==
    LET defs == SelectSeq(tree.body, IsFunctionDef)
    IN  [i \in 1..Len(defs) |-> _extract_function_info(defs[i], FALSE)]

_extract_methods(class_node) ==
    LET defs == SelectSeq(class_node.body, IsFunctionDef)
    IN  [i \in 1..Len(defs) |-> _extract_function_info(defs[i], TRUE)]

IsPropertyDecorator(decorator) ==
    \/ decorator.node = "Name" /\ decorator.id = << "property" >>
    \/ decorator.node = "Attribute" /\ decorator.attr = << "property" >>

\* the loop over decorator_list appends at the first match and breaks
IsProperty(n) ==
    IsFunctionDef(n) /\ \E i \in 1..Len(n.decorator_list) :
                            IsPropertyDecorator(n.decorator_list[i])

_extract_properties(class_node) ==
    LET defs == SelectSeq(class_node.body, IsProperty)
    IN  [i \in 1..Len(defs) |->
            [name |-> defs[i].name,
             docstring |-> get_docstring(defs[i]),
             line_number |-> defs[i].lineno,
             type |-> << "property" >>]]

IsClassDef(n) == n.node = "ClassDef"

ClassInfo(n) ==
    [name |-> n.name,
     docstring |-> get_docstring(n),
     line_number |-> n.lineno,
     bases |-> [i \in 1..Len(n.bases) |-> _get_name(n.bases[i])],
     decorators |-> DecoratorNames(n),
     methods |-> _extract_methods(n),
     properties |-> _extract_properties(n)]

_extract_classes(tree) ==
    LET defs == SelectSeq(AstWalk(<< tree >>), IsClassDef)
    IN  [i \in 1..Len(defs) |-> ClassInfo(defs[i])]

\* a constant target without the test of its case
IsNameTarget(target) == target.node = "Name"

IsConstantTarget(target) == target.node = "Name" /\ IsUpper(target.id)

ConstantsOfStatement(n) ==
    IF n.node = "Assign"
    THEN LET targets == SelectSeq(n.targets, IsConstantTarget)
         IN  [i \in 1..Len(targets) |->
                 [name |-> targets[i].id,
                  line_number |-> n.lineno,
                  value |-> _get_value_repr(n.value)]]
    ELSE << >>

_extract_constants(tree) ==
    Flatten([i \in 1..Len(tree.body) |-> ConstantsOfStatement(tree.body[i])])

ImportsOfStatement(n) ==
    IF n.node = "Import"
    THEN [i \in 1..Len(n.names) |->
             [type |-> << "import" >>, module |-> n.names[i].name,
              alias |-> n.names[i].asname]]
    ELSE IF n.node = "ImportFrom"
    THEN [i \in 1..Len(n.names) |->
             [type |-> << "from_import" >>,
              module |-> IF n.module = PyNone THEN << >> ELSE n.module,
              name |-> n.names[i].name, alias |-> n.names[i].asname]]
    ELSE << >>

_extract_imports(tree) ==
    LET nodes == AstWalk(<< tree >>)
    IN  Flatten([i \in 1..Len(nodes) |-> ImportsOfStatement(nodes[i])])

(***************************************************************************)
(* extract_from_file.  A source file is its status on reading (ok,         *)
(* unreadable: open raises OSError; undecodable: read raises               *)
(* UnicodeDecodeError; syntax_error: ast.parse raises SyntaxError) and,    *)
(* when it parses, its tree.  A call either raises or returns a value.     *)
(***************************************************************************)
SourceFile(status, tree) == [status |-> status, tree |-> tree]

Returned(value) == [raised |-> FALSE, value |-> value]

Raised(exc) == [raised |-> TRUE, exc |-> exc]

\* datetime.now().isoformat()
NowIso == << "<now>" >>

\* the body of the try statement, lines 36-51
TryExtract(file_path, file) ==
    IF file.status = "unreadable" THEN Raised(<< "OSError" >>)
    ELSE IF file.status = "undecodable" THEN Raised(<< "UnicodeDecodeError" >>)
    ELSE IF file.status = "syntax_error" THEN Raised(<< "SyntaxError" >>)
    ELSE Returned([path |-> file_path,
                   module_docstring |-> get_docstring(file.tree),
                   imports |-> _extract_imports(file.tree),
                   classes |-> _extract_classes(file.tree),
                   functions |-> _extract_functions(file.tree),
                   constants |-> _extract_constants(file.tree),
                   generated_at |-> NowIso])

\* extract_from_file without the handler: the exception leaves the call
extract_from_file_unguarded(file_path, file) == TryExtract(file_path, file)

\* the handler keeping the structural fields, empty, beside the error
extract_from_file_padded(file_path, file) ==
    LET r == TryExtract(file_path, file)
    IN  IF r.raised
        THEN Returned([path |-> file_path, error |-> r.exc, module_docstring |-> PyNone,
                       imports |-> << >>, classes |-> << >>, functions |-> << >>,
                       constants |-> << >>, generated_at |-> NowIso])
        ELSE r

\* the handler of lines 53-59: every Exception becomes an error record
extract_from_file(file_path, file) ==
    LET r == TryExtract(file_path, file)
    IN  IF r.raised
        THEN Returned([path |-> file_path, error |-> r.exc, generated_at |-> NowIso])
        ELSE r

(***************************************************************************)
(* Paths.  "/" is the separator token; Path(p).parts splits on it.         *)
(***************************************************************************)
Sep == "/"

RECURSIVE SplitFrom(_, _)
SplitFrom(p, cur) ==
    IF p = << >> THEN (IF cur = << >> THEN << >> ELSE << cur >>)
    ELSE IF Head(p) = Sep
         THEN (IF cur = << >> THEN << >> ELSE << cur >>) \o SplitFrom(Tail(p), << >>)
         ELSE SplitFrom(Tail(p), Append(cur, Head(p)))

\* Path(p).parts: the segments between separators; "." segments are dropped
PathParts(p) == SelectSeq(SplitFrom(p, << >>), LAMBDA seg : seg # << "." >>)

RECURSIVE JoinParts(_)
JoinParts(parts) ==
    IF parts = << >> THEN << >>
    ELSE IF Len(parts) = 1 THEN parts[1]
    ELSE parts[1] \o << Sep >> \o JoinParts(Tail(parts))

\* os.path.join(root, name)
PathJoin(root, name) == root \o << Sep >> \o name

\* os.path.relpath(p), for p below the current directory: the normalised path
RelPath(p) == JoinParts(PathParts(p))

\* f"{py_file}.json"
RecordName(py_file) == py_file \o << ".", "json" >>

DocshadowDir == << ".", "docshadow" >>

\* Path(".docshadow") / f"{py_file}.json"
OutputPath(py_file) == PathJoin(DocshadowDir, RecordName(py_file))

\* Path.parent
Parent(p) == LET parts == SplitFrom(p, << >>)
             IN  JoinParts(SubSeq(parts, 1, Len(parts) - 1))

IndexPath == PathJoin(DocshadowDir, << "index", ".", "json" >>)

StructurePath == PathJoin(DocshadowDir, << "docshadow", ".", "json" >>)

(***************************************************************************)
(* _build_project_structure.  A dict is [kind |-> "dict", entries |-> f]   *)
(* with f a function from segments to nodes; a leaf is a string.           *)
(***************************************************************************)
Dict(entries) == [kind |-> "dict", entries |-> entries]

Leaf(value) == [kind |-> "leaf", value |-> value]

EmptyEntries == [k \in {} |-> Leaf(<< >>)]

EmptyDict == Dict(EmptyEntries)

\* d[key] = node
DictSet(d, key, node) ==
    Dict([k \in DOMAIN d.entries \cup {key} |-> IF k = key THEN node ELSE d.entries[k]])

\* AddFile with line 374 taken for every segment: current[part] = {}
RECURSIVE AddFileResetting(_, _, _)
AddFileResetting(current, parts, leaf) ==
    IF current.kind # "dict" THEN Raised(<< "TypeError" >>)
    ELSE IF Len(parts) = 1 THEN Returned(DictSet(current, parts[1], Leaf(leaf)))
    ELSE LET sub == AddFileResetting(EmptyDict, Tail(parts), leaf)
         IN  IF sub.raised THEN sub ELSE Returned(DictSet(current, parts[1], sub.value))

\* Lines 372-379 for one file, from the mapping `current`: the mapping with the
\* file added, or TypeError when a segment on the way is bound to a leaf string.
RECURSIVE AddFile(_, _, _)
AddFile(current, parts, leaf) ==
    IF current.kind # "dict" THEN Raised(<< "TypeError" >>)
    ELSE IF Len(parts) = 1 THEN Returned(DictSet(current, parts[1], Leaf(leaf)))
    ELSE LET part == parts[1]
             child == IF part \notin DOMAIN current.entries
                      THEN EmptyDict ELSE current.entries[part]
             sub == AddFile(child, Tail(parts), leaf)
         IN  IF sub.raised THEN sub ELSE Returned(DictSet(current, part, sub.value))

RECURSIVE BuildFrom(_, _)
BuildFrom(structure, files) ==
    IF files = << >> THEN Returned(structure)
    ELSE LET py_file == Head(files)
             parts == PathParts(py_file)
             r == IF parts = << >> THEN Raised(<< "IndexError" >>)
                  ELSE AddFile(structure, parts, RecordName(py_file))
         IN  IF r.raised THEN r ELSE BuildFrom(r.value, Tail(files))

_build_project_structure(files) == BuildFrom(EmptyDict, files)

(***************************************************************************)
(* utils.py: the repository, the ignore patterns, discovery, directories.  *)
(***************************************************************************)
\* hexsha[:7]
ShortHashLen == 7

NoRepo == [valid |-> FALSE]

\* a repository: its commits and HEAD (PyNone while no commit exists)
Repo(commits, head) == [valid |-> TRUE, commits |-> commits, head |-> head]

Commit(hexsha, message) ==
    [hexsha |-> hexsha, message |-> message, author |-> << "Ada" >>,
     date |-> << "2024-01-01T00:00:00" >>]

\* git.Repo("."): InvalidGitRepositoryError becomes None
get_git_repo(env) == IF env.valid THEN env ELSE NoRepo

IsPrefix(s, t) == Len(s) <= Len(t) /\ SubSeq(t, 1, Len(s)) = s

\* repo.commit(rev): the commit a full or abbreviated hash names, or BadName
Resolve(r, rev) == {c \in r.commits : IsPrefix(rev, c.hexsha)}

IsBlank(tok) == tok \in {" ", "\n"}

\* str.strip()
RECURSIVE Strip(_)
Strip(s) ==
    IF s = << >> THEN s
    ELSE IF IsBlank(Head(s)) THEN Strip(Tail(s))
    ELSE IF IsBlank(s[Len(s)]) THEN Strip(SubSeq(s, 1, Len(s) - 1))
    ELSE s

CommitInfo(commit) ==
    [hash |-> commit.hexsha,
     short_hash |-> SubSeq(commit.hexsha, 1, ShortHashLen),
     message |-> Strip(commit.message),
     author |-> commit.author,
     date |-> commit.date]

NoCommitInfo == [hash |-> PyNone]

\* get_commit_info reading HEAD whatever revision it is given
get_commit_info_of_head(r, rev) ==
    IF r.head = PyNone THEN Raised(<< "ValueError" >>)
    ELSE Returned(CommitInfo(CHOOSE c \in r.commits : c.hexsha = r.head))

\* Returns the commit's information, None (NoCommitInfo) after BadName, or raises
\* ValueError when HEAD names no commit yet.
get_commit_info(r, rev) ==
    IF rev # PyNone /\ rev # << >>
    THEN IF Resolve(r, rev) = {} THEN Returned(NoCommitInfo)
         ELSE Returned(CommitInfo(CHOOSE c \in Resolve(r, rev) : TRUE))
    ELSE IF r.head = PyNone THEN Raised(<< "ValueError" >>)
         ELSE Returned(CommitInfo(CHOOSE c \in r.commits : c.hexsha = r.head))

\* A line of .docignore, as pathspec's gitwildmatch reads it: a name matches a
\* segment at any depth (a directory-only name, "name/", a directory segment),
\* a path with a separator matches that path; "!" negates; "#" is a comment.
Pattern(negated, dir_only, path) ==
    [kind |-> "pattern", include |-> ~negated, dir_only |-> dir_only, path |-> path]

CommentLine == [kind |-> "comment"]

InvalidLine == [kind |-> "invalid"]

NoSpec == [kind |-> "none"]

PathSpec(patterns) == [kind |-> "pathspec", patterns |-> patterns]

\* the .docignore file: absent, unreadable (open or read raises), or its lines
Docignore(state, lines) == [state |-> state, lines |-> lines]

\* lines 66-69 with a compiler that drops the lines it cannot compile
load_docignore_lenient(file) ==
    IF file.state = "absent" THEN NoSpec
    ELSE IF file.state = "unreadable" THEN NoSpec
    ELSE PathSpec(SelectSeq(file.lines, LAMBDA l : l.kind = "pattern"))

load_docignore(file) ==
    IF file.state = "absent" THEN NoSpec
    ELSE IF file.state = "unreadable" THEN NoSpec
    ELSE IF \E i \in 1..Len(file.lines) : file.lines[i].kind = "invalid" THEN NoSpec
    ELSE PathSpec(SelectSeq(file.lines, LAMBDA l : l.kind = "pattern"))

PatternMatches(pat, file_path) ==
    LET parts == PathParts(file_path)
        want == PathParts(pat.path)
    IN  IF Len(want) > 1
        THEN Len(parts) >= Len(want) /\ SubSeq(parts, 1, Len(want)) = want
        ELSE \E i \in 1..Len(parts) :
                /\ parts[i] = want[1]
                /\ pat.dir_only => i < Len(parts)

\* PathSpec.match_file: the last matching pattern decides
RECURSIVE MatchFrom(_, _, _)
MatchFrom(patterns, file_path, matched) ==
    IF patterns = << >> THEN matched
    ELSE MatchFrom(Tail(patterns), file_path,
                   IF PatternMatches(Head(patterns), file_path)
                   THEN Head(patterns).include ELSE matched)

should_ignore_file(file_path, docignore_spec) ==
    IF docignore_spec = NoSpec THEN FALSE
    ELSE MatchFrom(docignore_spec.patterns, file_path, FALSE)

\* A directory as os.walk lists it: its subdirectories and its files, in
\* listing order, each with its name.
Dir(dirs, files) == [dirs |-> dirs, files |-> files]

Entry(name, content) == [name |-> name, content |-> content]

EndsWithPy(name) == Len(name) >= 2 /\ SubSeq(name, Len(name) - 1, Len(name)) = << ".", "py" >>

\* line 88 leaving dirs as os.walk listed it
PruneNothing(dirs) == dirs

\* line 88: dirs[:] = [d for d in dirs if not d.startswith('.')]
PruneHidden(dirs) == SelectSeq(dirs, LAMBDA d : ~StartsWith(d.name, "."))

\* os.walk, top down, with the hidden directories removed from dirs before
\* the descent; onerror is None and links are not followed
RECURSIVE WalkFiles(_, _, _)
WalkFiles(root, dir, docignore_spec) ==
    LET kept == PruneHidden(dir.dirs)
        wanted == SelectSeq(dir.files, LAMBDA f :
                      /\ EndsWithPy(f.name)
                      /\ ~should_ignore_file(RelPath(PathJoin(root, f.name)),
                                             docignore_spec))
    IN  [i \in 1..Len(wanted) |-> RelPath(PathJoin(root, wanted[i].name))]
        \o Flatten([i \in 1..Len(kept) |->
                       WalkFiles(PathJoin(root, kept[i].name), kept[i].content,
                                 docignore_spec)])

get_python_files(directory, docignore_spec) ==
    WalkFiles(<< "." >>, directory, docignore_spec)

\* the file a relative path names in the working tree
RECURSIVE FileAt(_, _)
FileAt(dir, parts) ==
    IF Len(parts) = 1
    THEN (CHOOSE f \in {dir.files[i] : i \in 1..Len(dir.files)} :
              f.name = parts[1]).content
    ELSE FileAt((CHOOSE d \in {dir.dirs[i] : i \in 1..Len(dir.dirs)} :
                     d.name = parts[1]).content, Tail(parts))

\* the path and its ancestors
RECURSIVE WithParents(_)
WithParents(p) ==
    IF Len(SplitFrom(p, << >>)) <= 1 THEN {p} ELSE {p} \cup WithParents(Parent(p))

\* Path(path).mkdir(parents=True, exist_ok=True), when it succeeds
ensure_directory(d, path) == [d EXCEPT !.dirs = @ \cup WithParents(path)]

(***************************************************************************)
(* The environments generate_documentation is run in.                      *)
(***************************************************************************)
HexA == << "a", "1", "b", "2", "c", "3", "d", "4" >>

HexB == << "e", "5", "f", "6", "a", "7", "b", "8" >>

CommitA == Commit(HexA, << "first", "\n" >>)

CommitB == Commit(HexB, << " ", "second", "\n" >>)

\* no repository, a repository without a commit, one commit, two commits
Repos == << NoRepo, Repo({}, PyNone), Repo({CommitA}, HexA),
            Repo({CommitA, CommitB}, HexB) >>

\* no argument, the empty string, a full hash, an abbreviated hash, a hash no
\* commit has
CommitArgs == {PyNone, << >>, HexA, SubSeq(HexB, 1, 4), << "d", "e", "a", "d" >>}

PyName(stem) == << stem, ".", "py" >>

SelfArg == Arg(<< "s", "e", "l", "f" >>, NoNode)

\* class Foo: """doc"""; def bar(self, x, y=1): pass  -- and a constant, a function
OkModule ==
    Module(<< Expr(Constant("str", << "module doc" >>)),
              Import(<< Alias(<< "os" >>, PyNone) >>),
              Assign(<< Name(<< "M", "A", "X" >>) >>, Constant("int", << "1" >>), 3),
              ClassDef(<< "Foo" >>, 4, << >>, << >>,
                  << Expr(Constant("str", << "doc" >>)),
                     FunctionDef(<< "bar" >>, 6,
                         Arguments(<< >>,
                             << SelfArg, Arg(<< "x" >>, NoNode), Arg(<< "y" >>, NoNode) >>,
                             NoArg, NoArg, << Constant("int", << "1" >>) >>),
                         << >>, NoNode, << Pass >>) >>),
              FunctionDef(<< "main" >>, 8, NoArguments, << >>, NoNode, << Pass >>) >>)

EmptyModule == Module(<< >>)

OkFile == SourceFile("ok", OkModule)

BadFile(status) == SourceFile(status, EmptyModule)

HiddenDir == Entry(<< ".", "git" >>, Dir(<< >>, << Entry(PyName("hook"), OkFile) >>))

Worktrees ==
    { Dir(<< >>, << >>),
      Dir(<< HiddenDir >>, << Entry(<< "notes", ".", "txt" >>, OkFile) >>),
      Dir(<< >>, << Entry(PyName("a"), OkFile) >>),
      Dir(<< >>, << Entry(PyName("a"), BadFile("syntax_error")),
                    Entry(PyName("b"), OkFile) >>),
      Dir(<< HiddenDir,
             Entry(<< "pkg" >>, Dir(<< >>, << Entry(PyName("m"), BadFile("unreadable")) >>)) >>,
          << Entry(PyName("a"), OkFile) >>),
      Dir(<< Entry(<< "pkg" >>, Dir(<< >>, << Entry(PyName("m"), OkFile) >>)) >>,
          << Entry(PyName("b"), BadFile("undecodable")) >>) }

Docignores ==
    { Docignore("absent", << >>),
      Docignore("unreadable", << >>),
      Docignore("present", << CommentLine, Pattern(FALSE, TRUE, << "pkg" >>) >>),
      Docignore("present", << Pattern(FALSE, TRUE, << "pkg" >>), InvalidLine >>) }

(***************************************************************************)
(* The snapshot directory.                                                 *)
(***************************************************************************)
Json(data) == [kind |-> "json", data |-> data]

\* a file opened with mode 'w' whose json.dump did not complete
Truncated == [kind |-> "truncated"]

NoFiles == [p \in {} |-> Truncated]

EmptyDisk == [dirs |-> {}, files |-> NoFiles]

\* open(path, 'w') followed by a write of content
WriteFile(d, path, content) == [d EXCEPT !.files = (path :> content) @@ @]

(***************************************************************************)
(* generate_documentation                                                  *)
(***************************************************************************)
IndexData(info, files) ==
    [commit |-> info.hash, short_commit |-> info.short_hash, date |-> info.date,
     message |-> info.message, author |-> info.author, files |-> files]

DocshadowData(info, structure) ==
    [project |-> << "cwd" >>, generated_at |-> NowIso, commit |-> info.hash,
     structure |-> structure]

\* line 324 done for the files that parsed only
AppendDocumentedParsed(documented, py_file, doc_data) ==
    IF "error" \in DOMAIN doc_data THEN documented
    ELSE Append(documented, RecordName(py_file))

\* line 324
AppendDocumented(documented, py_file, doc_data) == Append(documented, RecordName(py_file))

\* the loop of line 310 left after its first iteration
LoopDoneAfterFirst(index, files) == index >= 1

\* line 310: the for loop is exhausted once every element has been visited
LoopDone(index, files) == index = Len(files)

\* return True / return False, and the handler of lines 358-360
Finish(ok, at) ==
    /\ pc' = IF ok THEN "done" ELSE "failed"
    /\ result' = IF ok THEN "True" ELSE "False"
    /\ raisedAt' = at

OrchInit ==
    /\ repo \in {Repos[i] : i \in 1..Len(Repos)}
    /\ worktree \in Worktrees
    /\ docignore \in Docignores
    /\ disk = EmptyDisk
    /\ pc = "idle"
    /\ commit_hash = PyNone
    /\ commit_info = NoCommitInfo
    /\ python_files = << >>
    /\ documented_files = << >>
    /\ file_index = 0
    /\ result = "none"
    /\ raisedAt = "none"
    /\ disk0 = EmptyDisk
    /\ written = {}
    /\ runs = 0

PureIdle == fn = "none" /\ inp = << >> /\ out = [applied |-> FALSE]

Init == OrchInit /\ PureIdle

\* the call: generate_documentation(rev)
Invoke(rev) ==
    /\ pc \in {"idle", "done", "failed"}
    /\ runs < MaxRuns
    /\ pc' = "discovering"
    /\ commit_hash' = rev
    /\ commit_info' = NoCommitInfo
    /\ python_files' = << >>
    /\ documented_files' = << >>
    /\ file_index' = 0
    /\ result' = "none"
    /\ raisedAt' = "none"
    /\ disk0' = disk
    /\ written' = {}
    /\ runs' = runs + 1
    /\ UNCHANGED << repo, worktree, docignore, disk, pureVars >>

\* between two invocations: git init, or one more commit
GitAdvance ==
    /\ pc \in {"done", "failed"}
    /\ \E i \in 1..(Len(Repos) - 1) : repo = Repos[i] /\ repo' = Repos[i + 1]
    /\ pc' = "idle"
    /\ UNCHANGED << worktree, docignore, disk, commit_hash, commit_info, python_files,
                    documented_files, file_index, result, raisedAt, disk0, written, runs,
                    pureVars >>

\* lines 280-300
Discover ==
    /\ pc = "discovering"
    /\ LET r == get_git_repo(repo)
           info == get_commit_info(r, commit_hash)
           found == get_python_files(worktree, load_docignore(docignore))
       IN  IF r = NoRepo
           THEN Finish(FALSE, "none") /\ UNCHANGED << commit_info, python_files >>
           ELSE IF info.raised
           THEN Finish(FALSE, "get_commit_info") /\ UNCHANGED << commit_info, python_files >>
           ELSE IF info.value = NoCommitInfo
           THEN Finish(FALSE, "none") /\ UNCHANGED << commit_info, python_files >>
           ELSE /\ commit_info' = info.value
                /\ python_files' = found
                /\ IF found = << >>
                   THEN Finish(TRUE, "none")
                   ELSE pc' = "ensure_directory" /\ UNCHANGED << result, raisedAt >>
    /\ UNCHANGED << repo, worktree, docignore, disk, commit_hash, documented_files,
                    file_index, disk0, written, runs, pureVars >>

\* line 306
EnsureSnapshotDirectory ==
    /\ pc = "ensure_directory"
    /\ \/ /\ disk' = ensure_directory(disk, DocshadowDir)
          /\ pc' = "extracting"
          /\ UNCHANGED << result, raisedAt >>
       \/ /\ Finish(FALSE, "ensure_directory")
          /\ UNCHANGED disk
    /\ UNCHANGED << repo, worktree, docignore, commit_hash, commit_info, python_files,
                    documented_files, file_index, disk0, written, runs, pureVars >>

\* lines 310-324, one iteration
ProcessFile ==
    /\ pc = "extracting"
    /\ LET py_file == python_files[file_index + 1]
           r == extract_from_file(py_file, FileAt(worktree, PathParts(py_file)))
           output_path == OutputPath(py_file)
           made == ensure_directory(disk, Parent(output_path))
       IN  IF r.raised
           THEN /\ Finish(FALSE, "extract_from_file")
                /\ UNCHANGED << disk, documented_files, file_index, written >>
           ELSE \/ /\ Finish(FALSE, "mkdir_parent")
                   /\ UNCHANGED << disk, documented_files, file_index, written >>
                \/ /\ Finish(FALSE, "open_record")
                   /\ disk' = made
                   /\ UNCHANGED << documented_files, file_index, written >>
                \/ /\ Finish(FALSE, "dump_record")
                   /\ disk' = WriteFile(made, output_path, Truncated)
                   /\ written' = written \cup {output_path}
                   /\ UNCHANGED << documented_files, file_index >>
                \/ /\ disk' = WriteFile(made, output_path, Json(r.value))
                   /\ written' = written \cup {output_path}
                   /\ documented_files' = AppendDocumented(documented_files, py_file, r.value)
                   /\ file_index' = file_index + 1
                   /\ pc' = IF LoopDone(file_index + 1, python_files)
                            THEN "indexing" ELSE "extracting"
                   /\ UNCHANGED << result, raisedAt >>
    /\ UNCHANGED << repo, worktree, docignore, commit_hash, commit_info, python_files,
                    disk0, runs, pureVars >>

\* lines 326-337
WriteIndex ==
    /\ pc = "indexing"
    /\ \/ /\ Finish(FALSE, "open_index")
          /\ UNCHANGED << disk, written >>
       \/ /\ Finish(FALSE, "dump_index")
          /\ disk' = WriteFile(disk, IndexPath, Truncated)
          /\ written' = written \cup {IndexPath}
       \/ /\ disk' = WriteFile(disk, IndexPath, Json(IndexData(commit_info, documented_files)))
          /\ written' = written \cup {IndexPath}
          /\ pc' = "persisting"
          /\ UNCHANGED << result, raisedAt >>
    /\ UNCHANGED << repo, worktree, docignore, commit_hash, commit_info, python_files,
                    documented_files, file_index, disk0, runs, pureVars >>

\* lines 339-356
WriteStructure ==
    /\ pc = "persisting"
    /\ LET project_structure == _build_project_structure(python_files)
       IN  IF project_structure.raised
           THEN Finish(FALSE, "_build_project_structure") /\ UNCHANGED << disk, written >>
           ELSE \/ /\ Finish(FALSE, "open_structure")
                   /\ UNCHANGED << disk, written >>
                \/ /\ Finish(FALSE, "dump_structure")
                   /\ disk' = WriteFile(disk, StructurePath, Truncated)
                   /\ written' = written \cup {StructurePath}
                \/ /\ Finish(TRUE, "none")
                   /\ disk' = WriteFile(disk, StructurePath,
                          Json(DocshadowData(commit_info, project_structure.value)))
                   /\ written' = written \cup {StructurePath}
    /\ UNCHANGED << repo, worktree, docignore, commit_hash, commit_info, python_files,
                    documented_files, file_index, disk0, runs, pureVars >>

Next ==
    \/ \E rev \in CommitArgs : Invoke(rev)
    \/ GitAdvance
    \/ Discover
    \/ EnsureSnapshotDirectory
    \/ ProcessFile
    \/ WriteIndex
    \/ WriteStructure

Spec == Init /\ [][Next]_vars

(***************************************************************************)
(* Properties of generate_documentation.                                   *)
(***************************************************************************)
\* the source file a discovered path names
SourceOf(py_file) == FileAt(worktree, PathParts(py_file))

ManifestOnDisk(d) ==
    /\ IndexPath \in DOMAIN d.files
    /\ d.files[IndexPath].kind = "json"

\* the invocation names a commit the repository does not have
UnknownCommit ==
    /\ repo.valid
    /\ commit_hash \notin {PyNone, << >>}
    /\ \A c \in repo.commits : ~IsPrefix(commit_hash, c.hexsha)

\* the hash of the commit the invocation runs for, PyNone if there is none
TargetHexsha ==
    IF commit_hash \in {PyNone, << >>} THEN repo.head
    ELSE IF UnknownCommit THEN PyNone
    ELSE (CHOOSE c \in repo.commits : IsPrefix(commit_hash, c.hexsha)).hexsha

\* C1, as stated: once the per-file loop has started, no step taken for a file
\* moves the run to Failed; Extracting is followed by Extracting or Indexing.
C1_ExtractingNeverFails ==
    [][pc = "extracting" => pc' \in {"extracting", "indexing"}]_vars

\* C1, amended: in the per-file loop no failure to read, decode or parse a file
\* moves the run to Failed; the run leaves Extracting for Failed only when
\* creating the file's output directory or opening or writing its record raises.
C1_OnlyOutputFailuresFail ==
    [][pc = "extracting" =>
          \/ pc' \in {"extracting", "indexing"}
          \/ /\ pc' = "failed"
             /\ result' = "False"
             /\ raisedAt' \in {"mkdir_parent", "open_record", "dump_record"}]_vars

\* C1's case: the loop has passed a file that did not parse and goes on
C1_Witness ==
    /\ pc = "extracting"
    /\ file_index >= 1
    /\ SourceOf(python_files[file_index]).status # "ok"

\* C2: an invocation that returns False has not written .docshadow/index.json.
C2_FailureWritesNoManifest == result = "False" => IndexPath \notin written

\* C3, as stated: every invocation that returns True has written a manifest
\* carrying the hash of its commit, whatever the discovered file set.
C3_SuccessWritesManifest ==
    pc = "done" =>
        /\ IndexPath \in written
        /\ ManifestOnDisk(disk)
        /\ disk.files[IndexPath].data.commit = TargetHexsha

\* C3, amended: every invocation that returns True after discovering at least
\* one file has written the manifest, which carries the full hash of the commit
\* the invocation ran for and replaces whatever manifest was there.
C3_SuccessWithFilesWritesManifest ==
    (pc = "done" /\ python_files # << >>) =>
        /\ result = "True"
        /\ IndexPath \in written
        /\ ManifestOnDisk(disk)
        /\ disk.files[IndexPath].data.commit = TargetHexsha

\* C3's case: a successful run for a named commit replaced the manifest an
\* earlier run had written for another commit
C3_Witness ==
    /\ pc = "done"
    /\ python_files # << >>
    /\ commit_hash \notin {PyNone, << >>}
    /\ ManifestOnDisk(disk0)
    /\ disk0.files[IndexPath].data.commit # disk.files[IndexPath].data.commit

\* C4: an invocation without a repository, or for a commit that does not exist,
\* returns False with nothing discovered and nothing under .docshadow created
\* or modified.
C4_AbortBeforeAnyFile ==
    (pc # "idle" /\ (~repo.valid \/ UnknownCommit)) =>
        /\ pc \in {"discovering", "failed"}
        /\ pc = "failed" => result = "False"
        /\ python_files = << >>
        /\ documented_files = << >>
        /\ written = {}
        /\ disk = disk0

\* C4's case: the commit named does not exist and an earlier snapshot is on disk
C4_Witness ==
    /\ pc = "failed"
    /\ UnknownCommit
    /\ ManifestOnDisk(disk)

\* C5: no file that fails to read or parse ends the run: its record is an error
\* record, and the manifest lists one entry per discovered file, the path plus
\* ".json", in discovery order.
C5_OneEntryPerDiscoveredFile ==
    /\ raisedAt # "extract_from_file"
    /\ pc \in {"persisting", "done"} /\ python_files # << >> =>
          /\ ManifestOnDisk(disk)
          /\ disk.files[IndexPath].data.files =
                [i \in 1..Len(python_files) |-> python_files[i] \o << ".", "json" >>]
          /\ \A i \in 1..Len(python_files) :
                LET record == disk.files[OutputPath(python_files[i])]
                IN  /\ record.kind = "json"
                    /\ "error" \in DOMAIN record.data
                          <=> SourceOf(python_files[i]).status # "ok"

\* C5's case: the run is complete, a file failed and a later one parsed
C5_Witness ==
    /\ pc = "done"
    /\ \E i, j \in 1..Len(python_files) :
          /\ i < j
          /\ SourceOf(python_files[i]).status # "ok"
          /\ SourceOf(python_files[j]).status = "ok"

\* the files of a directory tree, each as its sequence of path segments
RECURSIVE TreeFiles(_)
TreeFiles(dir) ==
    {<< dir.files[i].name >> : i \in 1..Len(dir.files)}
    \cup UNION {{<< dir.dirs[i].name >> \o p : p \in TreeFiles(dir.dirs[i].content)} :
                   i \in 1..Len(dir.dirs)}

\* some directory on the way to the file has a name that begins with "."
UnderHiddenDirectory(parts) ==
    \E i \in 1..(Len(parts) - 1) : StartsWith(parts[i], ".")

\* the source files discovery is to consider: ".py" files under no hidden directory
EligibleSources(dir) ==
    {p \in TreeFiles(dir) : EndsWithPy(p[Len(p)]) /\ ~UnderHiddenDirectory(p)}

\* .docignore is absent, or reading it or compiling its lines raises
DocignoreUnloadable ==
    \/ docignore.state \in {"absent", "unreadable"}
    \/ \E i \in 1..Len(docignore.lines) : docignore.lines[i].kind = "invalid"

\* C11: when .docignore is absent, unreadable or does not compile, the matcher
\* load_docignore returns excludes no path of the tree, and the discovery step of
\* a run whose commit resolved raises nothing, returns every ".py" file under no
\* hidden directory exactly once, and goes on to the snapshot directory and the
\* extraction loop (or returns True when there is no such file).
C11_LoadFailureExcludesNothing ==
    [][DocignoreUnloadable =>
          /\ \A p \in TreeFiles(worktree) :
                ~should_ignore_file(JoinParts(p), load_docignore(docignore))
          /\ (pc = "discovering" /\ commit_info' # NoCommitInfo) =>
                /\ {PathParts(python_files'[i]) : i \in 1..Len(python_files')}
                      = EligibleSources(worktree)
                /\ Len(python_files') = Cardinality(EligibleSources(worktree))
                /\ raisedAt' = "none"
                /\ IF EligibleSources(worktree) = {}
                   THEN pc' = "done" /\ result' = "True"
                   ELSE pc' = "ensure_directory" /\ result' = "none"]_vars

\* C11's case: .docignore holds a line that does not compile after a pattern that
\* would exclude pkg/, and the run is in the extraction loop with a file of pkg/
C11_Witness ==
    /\ pc = "extracting"
    /\ docignore.state = "present"
    /\ DocignoreUnloadable
    /\ \E i \in 1..Len(python_files) : PathParts(python_files[i])[1] = << "pkg" >>

\* the invocation under way (or the last one) has written a complete file there
WrittenWhole(path) == path \in written /\ disk.files[path].kind = "json"

\* C12: in every invocation the record of every discovered file is written, whole,
\* before index.json is opened; every path index.json lists has its record on
\* disk when index.json is written; index.json is written, whole, before
\* docshadow.json is opened; and no record is written again once index.json is.
C12_RecordsThenIndexThenStructure ==
    /\ [](IndexPath \in written =>
             /\ \A i \in 1..Len(python_files) : WrittenWhole(OutputPath(python_files[i]))
             /\ Len(documented_files) = Len(python_files)
             /\ \A j \in 1..Len(documented_files) :
                   WrittenWhole(PathJoin(DocshadowDir, documented_files[j])))
    /\ [](WrittenWhole(IndexPath) =>
             \A j \in 1..Len(disk.files[IndexPath].data.files) :
                WrittenWhole(PathJoin(DocshadowDir, disk.files[IndexPath].data.files[j])))
    /\ [](StructurePath \in written => WrittenWhole(IndexPath))
    /\ [][(IndexPath \in written /\ IndexPath \in written') =>
             \A i \in 1..Len(python_files) :
                disk'.files[OutputPath(python_files[i])]
                   = disk.files[OutputPath(python_files[i])]]_vars

\* C12's case: a second snapshot over an earlier one, two files discovered, the
\* manifest of this invocation written and the structure map not yet
C12_Witness ==
    /\ pc = "persisting"
    /\ Len(python_files) >= 2
    /\ ManifestOnDisk(disk0)
    /\ IndexPath \in written
    /\ StructurePath \notin written

(***************************************************************************)
(* Applications of single functions of the extractor and the indexer: the *)
(* input is drawn at the start, the one step applies the function.         *)
(***************************************************************************)
NotApplied == [applied |-> FALSE]

Applied(value) == [applied |-> TRUE, value |-> value]

\* no invocation of generate_documentation is under way
OrchQuiet ==
    /\ repo = NoRepo
    /\ worktree = Dir(<< >>, << >>)
    /\ docignore = Docignore("absent", << >>)
    /\ disk = EmptyDisk
    /\ pc = "idle"
    /\ commit_hash = PyNone
    /\ commit_info = NoCommitInfo
    /\ python_files = << >>
    /\ documented_files = << >>
    /\ file_index = 0
    /\ result = "none"
    /\ raisedAt = "none"
    /\ disk0 = EmptyDisk
    /\ written = {}
    /\ runs = 0

PureInit(name, inputs) == OrchQuiet /\ fn = name /\ inp \in inputs /\ out = NotApplied

\* the sequences over a set, up to a length
SeqsUpTo(S, n) == UNION {[1..k -> S] : k \in 0..n}

(***************************************************************************)
(* _extract_arguments on the signatures of up to MaxArgs parameters.       *)
(***************************************************************************)
ArgNames == << << "a" >>, << "b" >>, << "c" >>, << "d" >>, << "e" >> >>

\* the default written at a position: a number, a name, a string, a list, a call
DefaultAt(j) ==
    IF j % 5 = 1 THEN Constant("int", << "1" >>)
    ELSE IF j % 5 = 2 THEN Name(<< "x" >>)
    ELSE IF j % 5 = 3 THEN Constant("str", << "s" >>)
    ELSE IF j % 5 = 4 THEN [node |-> "List"]
    ELSE [node |-> "Call"]

AnnotationAt(i) == IF i % 2 = 1 THEN NoNode ELSE Name(<< "int" >>)

Variadics == {NoArg, Arg(<< "rest" >>, NoNode), Arg(<< "rest" >>, Name(<< "int" >>))}

\* def f(p, /, a, b=..., *rest, **rest): p positional-only parameters, n
\* others, k defaults (Python pairs them with the last of all p + n)
Signatures ==
    { Arguments([i \in 1..p |-> Arg(<< "p" >>, NoNode)],
                [i \in 1..n |-> Arg(ArgNames[i], AnnotationAt(i))],
                va, kw,
                [j \in 1..k |-> DefaultAt(j)]) :
        p \in 0..1, n \in 0..MaxArgs, k \in 0..(MaxArgs + 1), va \in Variadics,
        kw \in Variadics }

ValidSignatures ==
    {a \in Signatures : Len(a.defaults) <= Len(a.posonlyargs) + Len(a.args)}

InitArguments == PureInit("_extract_arguments", ValidSignatures)

ApplyExtractArguments ==
    /\ fn = "_extract_arguments"
    /\ out = NotApplied
    /\ out' = Applied(_extract_arguments(inp))
    /\ UNCHANGED << orchVars, fn, inp >>

SpecArguments == InitArguments /\ [][ApplyExtractArguments]_vars

MAX == << "M", "A", "X" >>

MIN == << "M", "I", "N" >>

\* MAX, MIN, max, Max, _, (MAX, MIN) and cfg.MAX as assignment targets
TargetPool ==
    { Name(MAX), Name(MIN), Name(<< "m", "a", "x" >>), Name(<< "M", "a", "x" >>),
      Name(<< "_" >>), Tuple(<< Name(MAX), Name(MIN) >>),
      Attribute(Name(<< "cfg" >>), MAX) }

One == Constant("int", << "1" >>)

\* t1 = ... = tk = 1 on line 1, with 1 <= k <= MaxTargets
FirstStatements ==
    {Assign(targets, One, 1) : targets \in SeqsUpTo(TargetPool, MaxTargets) \ {<< >>}}

\* what follows on line 2: nothing, MIN = 1, MAX: int = 1, or if ...: MAX = 1
RestBodies ==
    { << >>,
      << Assign(<< Name(MIN) >>, One, 2) >>,
      << [node |-> "AnnAssign", target |-> Name(MAX), lineno |-> 2] >>,
      << If(<< Assign(<< Name(MAX) >>, One, 3) >>) >> }

ConstantModules == {Module(<< first >> \o rest) : first \in FirstStatements, rest \in RestBodies}

InitConstants == PureInit("_extract_constants", ConstantModules)

ApplyExtractConstants ==
    /\ fn = "_extract_constants"
    /\ out = NotApplied
    /\ out' = Applied(_extract_constants(inp))
    /\ UNCHANGED << orchVars, fn, inp >>

SpecConstants == InitConstants /\ [][ApplyExtractConstants]_vars

\* the identifiers a target binds: a name itself, a tuple the names in it
BoundNames(target) ==
    IF target.node = "Name" THEN << target.id >>
    ELSE IF target.node = "Tuple"
    THEN [i \in 1..Len(target.elts) |-> target.elts[i].id]
    ELSE << >>

Count(s, T(_)) == Cardinality({i \in 1..Len(s) : T(s[i])})

ModuleAssigns(tree) == SelectSeq(tree.body, LAMBDA n : n.node = "Assign")

\* C8, as stated: every upper-case identifier assigned at module level, alone
\* (MAX = 1) or in MAX, MIN = 1, 2, yields a record with the statement's line
\* number, and a lower-case identifier yields none.
C8_EveryUpperCaseTarget ==
    (fn = "_extract_constants" /\ out.applied) =>
        \A s \in 1..Len(ModuleAssigns(inp)) :
            LET stmt == ModuleAssigns(inp)[s]
                names == Flatten([t \in 1..Len(stmt.targets) |-> BoundNames(stmt.targets[t])])
            IN  \A n \in 1..Len(names) :
                    Count(out.value, LAMBDA r : r.name = names[n]
                                                /\ r.line_number = stmt.lineno)
                        = IF IsUpper(names[n])
                          THEN Count(names, LAMBDA x : x = names[n]) ELSE 0

\* C8, amended: every target that is itself an upper-case name, in a single
\* assignment (MAX = 1) or a chained one (MAX = MIN = 1), yields one record
\* with the statement's line number, in order; a lower-case name yields none,
\* and so do the names of a tuple target (MAX, MIN = 1, 2) and any other target.
C8_EveryUpperCaseNameTarget ==
    (fn = "_extract_constants" /\ out.applied) =>
        LET stmts == ModuleAssigns(inp)
            wanted == Flatten([s \in 1..Len(stmts) |->
                          LET named == SelectSeq(stmts[s].targets, LAMBDA t :
                                           t.node = "Name" /\ IsUpper(t.id))
                          IN  [t \in 1..Len(named) |->
                                  << named[t].id, stmts[s].lineno >>]])
        IN  [k \in 1..Len(out.value) |-> << out.value[k].name, out.value[k].line_number >>]
                = wanted

\* C8's case: a chained assignment of two upper-case names (MAX = MIN = 1) and
\* a second assignment below it
C8_Witness ==
    /\ fn = "_extract_constants"
    /\ out.applied
    /\ inp.body[1].targets = << Name(MAX), Name(MIN) >>
    /\ Len(out.value) = 3

(***************************************************************************)
(* _extract_classes on a module holding one class of two members.          *)
(***************************************************************************)
\* @property, @abc.property, @staticmethod, @x.setter
DecoratorPool ==
    { Name(<< "property" >>), Attribute(Name(<< "abc" >>), << "property" >>),
      Name(<< "staticmethod" >>), Attribute(Name(<< "x" >>), << "setter" >>) }

FewDecorators == {<< >>, << Name(<< "property" >>) >>}

Def(name, lineno, decorators) ==
    FunctionDef(name, lineno, Arguments(<< >>, << SelfArg >>, NoArg, NoArg, << >>),
                decorators, NoNode, << Pass >>)

AsyncDef(name, lineno, decorators) ==
    AsyncFunctionDef(name, lineno, Arguments(<< >>, << SelfArg >>, NoArg, NoArg, << >>),
                     decorators, NoNode, << Pass >>)

\* the first member, on line 2 (a nested class has its method on line 3)
FirstMembers ==
    {Def(<< "x" >>, 2, d) : d \in SeqsUpTo(DecoratorPool, MaxDecorators)}
        \cup {AsyncDef(<< "x" >>, 2, d) : d \in FewDecorators}
        \cup {ClassDef(<< "Inner" >>, 2, << >>, << >>, << Def(<< "y" >>, 3, d) >>) :
                d \in FewDecorators}
        \cup {Pass}

\* the second member, on line 4 (a nested class has its method on line 5)
SecondMembers ==
    { << >>,
      << Def(<< "x" >>, 4, << Attribute(Name(<< "x" >>), << "setter" >>) >>) >>,
      << Def(<< "z" >>, 4, << Name(<< "property" >>) >>) >>,
      << AsyncDef(<< "z" >>, 4, << >>) >>,
      << ClassDef(<< "Other" >>, 4, << >>, << >>,
                  << Def(<< "w" >>, 5, << Name(<< "property" >>) >>) >>) >> }

ClassModules ==
    {Module(<< ClassDef(<< "Foo" >>, 1, << >>, << >>, << m1 >> \o m2) >>) :
        m1 \in FirstMembers, m2 \in SecondMembers}

InitClasses == PureInit("_extract_classes", ClassModules)

ApplyExtractClasses ==
    /\ fn = "_extract_classes"
    /\ out = NotApplied
    /\ out' = Applied(_extract_classes(inp))
    /\ UNCHANGED << orchVars, fn, inp >>

SpecClasses == InitClasses /\ [][ApplyExtractClasses]_vars

\* a method: a def or an async def
IsMethodNode(n) == n.node \in {"FunctionDef", "AsyncFunctionDef"}

HasPropertyDecorator(n) ==
    \E i \in 1..Len(n.decorator_list) :
        \/ n.decorator_list[i] = Name(<< "property" >>)
        \/ /\ n.decorator_list[i].node = "Attribute"
           /\ n.decorator_list[i].attr = << "property" >>

\* C9: for every class definition, every method of its immediate body is once
\* in methods, once in properties if one of its decorators is property or ends
\* in .property and not at all otherwise, and nothing else is in either list.
C9_MethodsAndProperties ==
    (fn = "_extract_classes" /\ out.applied) =>
        LET classes == SelectSeq(AstWalk(<< inp >>), IsClassDef)
        IN  /\ Len(out.value) = Len(classes)
            /\ \A c \in 1..Len(classes) :
                  LET body == classes[c].body
                      info == out.value[c]
                  IN  /\ \A i \in 1..Len(body) : IsMethodNode(body[i]) =>
                            /\ Cardinality({k \in 1..Len(info.methods) :
                                   /\ info.methods[k].name = body[i].name
                                   /\ info.methods[k].line_number = body[i].lineno}) = 1
                            /\ Cardinality({k \in 1..Len(info.properties) :
                                   /\ info.properties[k].name = body[i].name
                                   /\ info.properties[k].line_number = body[i].lineno})
                                  = IF HasPropertyDecorator(body[i]) THEN 1 ELSE 0
                      /\ \A k \in 1..Len(info.methods) : \E i \in 1..Len(body) :
                            /\ IsMethodNode(body[i])
                            /\ info.methods[k].line_number = body[i].lineno
                      /\ \A k \in 1..Len(info.properties) : \E i \in 1..Len(body) :
                            /\ IsMethodNode(body[i])
                            /\ info.properties[k].line_number = body[i].lineno

(***************************************************************************)
(* extract_from_file on files of up to MaxBody statements.                 *)
(***************************************************************************)
StatementPool ==
    { Expr(Constant("str", << "doc" >>)),
      Pass,
      Import(<< Alias(<< "os" >>, PyNone), Alias(<< "sys" >>, << "s" >>) >>),
      ImportFrom(PyNone, << Alias(<< "x" >>, PyNone) >>),
      Assign(<< Name(MAX) >>, One, 1),
      Def(<< "f" >>, 1, << >>),
      AsyncDef(<< "g" >>, 1, << >>),
      ClassDef(<< "Foo" >>, 1, << Name(<< "Base" >>) >>, << >>,
               << Def(<< "x" >>, 2, << Name(<< "property" >>) >>) >>),
      If(<< Import(<< Alias(<< "re" >>, PyNone) >>), Def(<< "h" >>, 2, << >>) >>) }

SourceFiles ==
    {SourceFile("ok", Module(body)) : body \in SeqsUpTo(StatementPool, MaxBody)}
        \cup {BadFile(status) : status \in {"unreadable", "undecodable", "syntax_error"}}

SourcePaths == {PyName("a"), << "pkg", Sep >> \o PyName("m")}

InitExtract ==
    PureInit("extract_from_file",
             {[file_path |-> p, file |-> f] : p \in SourcePaths, f \in SourceFiles})

ApplyExtractFromFile ==
    /\ fn = "extract_from_file"
    /\ out = NotApplied
    /\ out' = Applied(extract_from_file(inp.file_path, inp.file))
    /\ UNCHANGED << orchVars, fn, inp >>

SpecExtract == InitExtract /\ [][ApplyExtractFromFile]_vars

StructuralFields == {"module_docstring", "imports", "classes", "functions", "constants"}

\* C6: extract_from_file returns (never raises) a record of one of two shapes:
\* the five structural fields without error for a file that reads and parses,
\* exactly path, error and generated_at for a file that does not.
C6_OneOfTwoShapes ==
    (fn = "extract_from_file" /\ out.applied) =>
        /\ ~out.value.raised
        /\ LET record == out.value.value
           IN  /\ record.path = inp.file_path
               /\ inp.file.status = "ok" =>
                     DOMAIN record = {"path", "generated_at"} \cup StructuralFields
               /\ inp.file.status # "ok" =>
                     DOMAIN record = {"path", "error", "generated_at"}
               /\ ("error" \in DOMAIN record) # (StructuralFields \subseteq DOMAIN record)
               /\ "error" \in DOMAIN record => StructuralFields \cap DOMAIN record = {}

\* C6's case: a file that does not parse has been extracted from
C6_Witness ==
    /\ fn = "extract_from_file"
    /\ out.applied
    /\ inp.file.status = "syntax_error"
    /\ "error" \in DOMAIN out.value.value

(***************************************************************************)
(* _build_project_structure on the lists of up to MaxPaths paths that      *)
(* get_python_files can return: distinct, and none naming a directory of   *)
(* another (a name is a file or a directory, not both).                    *)
(***************************************************************************)
PathPool ==
    { PyName("a"), PyName("b"),
      << "pkg", Sep >> \o PyName("a"),
      << "pkg", Sep >> \o PyName("b"),
      << "pkg", Sep, "sub", Sep >> \o PyName("a"),
      PyName("a") \o << Sep >> \o PyName("b") }

FileLists ==
    {l \in SeqsUpTo(PathPool, MaxPaths) :
        \A i, j \in 1..Len(l) : i # j =>
            /\ l[i] # l[j]
            /\ ~IsPrefix(PathParts(l[i]), PathParts(l[j]))}

InitStructure == PureInit("_build_project_structure", FileLists)

ApplyBuildProjectStructure ==
    /\ fn = "_build_project_structure"
    /\ out = NotApplied
    /\ out' = Applied(_build_project_structure(inp))
    /\ UNCHANGED << orchVars, fn, inp >>

SpecStructure == InitStructure /\ [][ApplyBuildProjectStructure]_vars

\* the node reached from a mapping along a chain of segments
RECURSIVE Follow(_, _)
Follow(node, parts) ==
    IF parts = << >> THEN node
    ELSE IF node.kind = "dict" /\ Head(parts) \in DOMAIN node.entries
    THEN Follow(node.entries[Head(parts)], Tail(parts))
    ELSE [kind |-> "missing"]

\* the leaf strings of a mapping
RECURSIVE Leaves(_)
Leaves(node) ==
    IF node.kind = "leaf" THEN {node.value}
    ELSE UNION {Leaves(node.entries[k]) : k \in DOMAIN node.entries}

\* the number of leaves of a mapping
RECURSIVE LeafCount(_)
LeafCount(node) ==
    IF node.kind = "leaf" THEN 1
    ELSE LET keys == DOMAIN node.entries
             RECURSIVE Sum(_)
             Sum(ks) == IF ks = {} THEN 0
                        ELSE LET k == CHOOSE x \in ks : TRUE
                             IN  LeafCount(node.entries[k]) + Sum(ks \ {k})
         IN  Sum(keys)

Listings ==
    { << >>,
      << Entry(PyName("a"), OkFile) >>,
      << Entry(<< "notes", ".", "txt" >>, OkFile), Entry(PyName("keep"), OkFile) >> }

SubDirs ==
    {Dir(<< >>, l) : l \in Listings}
    \cup { Dir(<< Entry(<< ".", "venv" >>, Dir(<< >>, << Entry(PyName("a"), OkFile) >>)) >>,
               << Entry(PyName("keep"), OkFile) >>),
           Dir(<< Entry(<< "build" >>, Dir(<< >>, << Entry(PyName("a"), OkFile) >>)) >>,
               << >>) }

DirNames == { << "pkg" >>, << ".", "git" >>, << "build" >> }

\* the listings of sub-directories: distinct names, any contents
DirListings ==
    {l \in SeqsUpTo({Entry(n, d) : n \in DirNames, d \in SubDirs}, MaxSubdirs) :
        \A i, j \in 1..Len(l) : i # j => l[i].name # l[j].name}

DirectoryTrees == {Dir(ds, fs) : ds \in DirListings, fs \in Listings}

\* no .docignore; "build/"; "build/" then "!build/keep.py"; "a.py"
Matchers ==
    { NoSpec,
      PathSpec(<< Pattern(FALSE, TRUE, << "build" >>) >>),
      PathSpec(<< Pattern(FALSE, TRUE, << "build" >>),
                  Pattern(TRUE, FALSE, << "build", Sep >> \o PyName("keep")) >>),
      PathSpec(<< Pattern(FALSE, FALSE, PyName("a")) >>) }

InitDiscover ==
    PureInit("get_python_files",
             {[directory |-> d, docignore_spec |-> m] : d \in DirectoryTrees, m \in Matchers})

ApplyGetPythonFiles ==
    /\ fn = "get_python_files"
    /\ out = NotApplied
    /\ out' = Applied(get_python_files(inp.directory, inp.docignore_spec))
    /\ UNCHANGED << orchVars, fn, inp >>

SpecDiscover == InitDiscover /\ [][ApplyGetPythonFiles]_vars

\* C13: every path get_python_files returns names a file of the tree that ends
\* with ".py", has no directory segment beginning with ".", and is not excluded
\* by the matcher; and every ".py" file of the tree under no hidden directory
\* that the matcher does not exclude is returned exactly once.
C13_HiddenPrunedRestReturnedOnce ==
    (fn = "get_python_files" /\ out.applied) =>
        /\ \A i \in 1..Len(out.value) :
              LET parts == PathParts(out.value[i])
              IN  /\ parts \in TreeFiles(inp.directory)
                  /\ ~UnderHiddenDirectory(parts)
                  /\ EndsWithPy(parts[Len(parts)])
                  /\ ~should_ignore_file(out.value[i], inp.docignore_spec)
        /\ \A p \in EligibleSources(inp.directory) :
              ~should_ignore_file(JoinParts(p), inp.docignore_spec) =>
                 Cardinality({i \in 1..Len(out.value) : PathParts(out.value[i]) = p}) = 1

\* C13's case: the tree holds a ".py" file under a hidden directory, one the
\* matcher excludes and one it re-includes below an excluded directory
C13_Witness ==
    /\ fn = "get_python_files" /\ out.applied
    /\ \E p \in TreeFiles(inp.directory) :
          EndsWithPy(p[Len(p)]) /\ UnderHiddenDirectory(p)
    /\ \E p \in EligibleSources(inp.directory) :
          should_ignore_file(JoinParts(p), inp.docignore_spec)
    /\ \E i \in 1..Len(out.value) :
          out.value[i] = << "build", Sep >> \o PyName("keep")
    /\ \E i \in 1..Len(inp.docignore_spec.patterns) :
          ~inp.docignore_spec.patterns[i].include
(***************************************************************************)
(* _extract_functions and _extract_methods on modules of one or two        *)
(* statements: a def or an async def at the top level, inside a function,  *)
(* inside a conditional, inside a class.                                   *)
(***************************************************************************)
\* def name(self): <body>  and  async def name(self): <body>
DefWith(name, lineno, body) ==
    FunctionDef(name, lineno, Arguments(<< >>, << SelfArg >>, NoArg, NoArg, << >>),
                << >>, NoNode, body)

AsyncDefWith(name, lineno, body) ==
    AsyncFunctionDef(name, lineno, Arguments(<< >>, << SelfArg >>, NoArg, NoArg, << >>),
                     << >>, NoNode, body)

\* the definitions that can stand on a line: def f, async def f
DefsAt(name, lineno) ==
    {DefWith(name, lineno, << Pass >>), AsyncDefWith(name, lineno, << Pass >>)}

\* a statement on a line, the definition nested in it (if any) on the next
StatementsAt(lineno) ==
    DefsAt(<< "f" >>, lineno)
    \cup {DefWith(<< "f" >>, lineno, << inner >>) : inner \in DefsAt(<< "g" >>, lineno + 1)}
    \cup {AsyncDefWith(<< "f" >>, lineno, << inner >>) :
             inner \in DefsAt(<< "g" >>, lineno + 1)}
    \cup {If(<< inner >>) : inner \in DefsAt(<< "g" >>, lineno + 1)}
    \cup {ClassDef(<< "Foo" >>, lineno, << >>, << >>, << inner >>) :
             inner \in DefsAt(<< "m" >>, lineno + 1)}
    \cup {Pass}

FunctionModules ==
    {Module(<< s1 >>) : s1 \in StatementsAt(1)}
    \cup {Module(<< s1, s2 >>) : s1 \in StatementsAt(1), s2 \in StatementsAt(3)}

InitFunctions == PureInit("_extract_functions", FunctionModules)

ApplyExtractFunctions ==
    /\ fn = "_extract_functions"
    /\ out = NotApplied
    /\ out' = Applied([functions |-> _extract_functions(inp),
                       classes |-> _extract_classes(inp)])
    /\ UNCHANGED << orchVars, fn, inp >>

SpecFunctions == InitFunctions /\ [][ApplyExtractFunctions]_vars

\* the records of a list made for one definition, found by name and line
RecordsOf(records, n) ==
    {k \in 1..Len(records) :
        records[k].name = n.name /\ records[k].line_number = n.lineno}

\* every def and async def of the body has exactly one record, is_async true
\* exactly for the async ones, and every record belongs to one of them
OneRecordPerDefinition(records, body) ==
    /\ \A i \in 1..Len(body) : IsMethodNode(body[i]) =>
          /\ Cardinality(RecordsOf(records, body[i])) = 1
          /\ \A k \in RecordsOf(records, body[i]) :
                records[k].is_async <=> body[i].node = "AsyncFunctionDef"
    /\ \A k \in 1..Len(records) : \E i \in 1..Len(body) :
          IsMethodNode(body[i]) /\ k \in RecordsOf(records, body[i])

\* C14: every def or async def that is a direct statement of the module has
\* exactly one record in functions, is_async true exactly when it is async, and
\* functions holds nothing else (no definition nested in a function, a
\* conditional or a class); the same for the methods of each class's own body.
C14_OneRecordPerTopLevelDefinition ==
    (fn = "_extract_functions" /\ out.applied) =>
        /\ OneRecordPerDefinition(out.value.functions, inp.body)
        /\ LET classes == SelectSeq(AstWalk(<< inp >>), IsClassDef)
           IN  /\ Len(out.value.classes) = Len(classes)
               /\ \A c \in 1..Len(classes) :
                     OneRecordPerDefinition(out.value.classes[c].methods, classes[c].body)
====
